---- MODULE Spec2Model ----
(***************************************************************************)
(* The error handling and recovery engine of agents/error_handling_system  *)
(* (class ErrorHandler): fault history, recovery strategy registry, retry  *)
(* counters, circuit breakers and the engine lock, with several threads    *)
(* calling handle_error concurrently.                                      *)
(***************************************************************************)
EXTENDS Integers, Sequences, FiniteSets, TLC

(* ------------------------------ bounds -------------------------------- *)

\* handle_error calls started in one run of concurrent callers
MaxCalls == 4
\* handle_error calls made in one run of a single caller
MaxSeqCalls == 6
\* the clock stops advancing here
MaxNow == 600
\* seconds the clock advances in one step
TickStep == 300
\* direct update_circuit_breaker calls stop raising failure_count here
MaxFailureCount == 6

(* ------------------------- program constants -------------------------- *)

max_retries == 3
circuit_breaker_threshold == 5
circuit_breaker_timeout == 300
\* Python's None in the field opened_at (a time is >= 0)
None == -1

(* ------------------------------ inputs -------------------------------- *)

Threads == {"t1", "t2"}

\* (agent_role, task_id, error_type) of the handle_error calls.  Identifiers
\* are free-form strings; two of them contain '_'.
Inputs ==
    { <<"qa", "lead_t1", "ConnectionError">>,
      <<"qa_lead", "t1", "ConnectionError">>,
      <<"qa", "t1", "ConnectionError">> }

\* the inputs of concurrent callers: one (agent_role, error_type), two tasks
SamePairInputs == {i \in Inputs : i[1] = "qa"}

ErrorTypes == {i[3] : i \in Inputs}
Pairs == {<<i[1], i[3]>> : i \in Inputs}
SamePairs == {<<i[1], i[3]>> : i \in SamePairInputs}

\* handlers a caller can register: two of the module's own and one that raises
Handlers == {"connection_error_handler", "memory_error_handler", "raising_handler"}

\* (strategy, handler) pairs offered to register_recovery_strategy
Registrations ==
    { <<"retry", "connection_error_handler">>,
      <<"escalate", "memory_error_handler">>,
      <<"retry", "raising_handler">> }

(* ------------------------------ values -------------------------------- *)

NoAction == [strategy |-> "none", parameters |-> <<>>]

RecoveryAction(strategy, parameters) ==
    [strategy |-> strategy, parameters |-> parameters]

\* the dict a handler or the engine returns
Result(success, strategy, message, recovery_action) ==
    [success |-> success, strategy |-> strategy, message |-> message,
     recovery_action |-> recovery_action]

NoResult == Result(FALSE, "", "", NoAction)

NoContext == [error_type |-> "", agent_role |-> "", task_id |-> "", severity |-> ""]

\* what a handle_error call for error_context gave its caller: a decision, or
\* an exception.  handler_called records whether the strategy handler ran.
Returned(error_context, result, handler_called) ==
    [state |-> "returned", exc |-> "", call |-> error_context, result |-> result,
     handler_called |-> handler_called]

Raised(error_context, exc) ==
    [state |-> "raised", exc |-> exc, call |-> error_context, result |-> NoResult,
     handler_called |-> FALSE]

NoReturn == [state |-> "none", exc |-> "", call |-> NoContext, result |-> NoResult,
             handler_called |-> FALSE]

Get(d, k, default) == IF k \in DOMAIN d THEN d[k] ELSE default

Put(d, k, v) == [x \in DOMAIN d \cup {k} |-> IF x = k THEN v ELSE d[x]]

Del(d, k) == [x \in DOMAIN d \ {k} |-> d[x]]

(* --------------------------- pure functions --------------------------- *)

breaker_key(agent_role, error_type) == agent_role \o "_" \o error_type

retry_key(agent_role, task_id, error_type) ==
    agent_role \o "_" \o task_id \o "_" \o error_type

determine_error_severity_by_message(error_type, error_message) ==
    IF error_message = "out of memory" THEN "critical"
    ELSE IF error_type \in {"SystemExit", "KeyboardInterrupt", "MemoryError"} THEN "critical"
    ELSE IF error_type \in {"ConnectionError", "TimeoutError", "FileNotFoundError"} THEN "high"
    ELSE IF error_type \in {"ValueError", "TypeError", "KeyError"} THEN "medium"
    ELSE "low"

determine_error_severity(error_type, error_message) ==
    IF error_type \in {"SystemExit", "KeyboardInterrupt", "MemoryError"} THEN "critical"
    ELSE IF error_type \in {"ConnectionError", "TimeoutError", "FileNotFoundError"} THEN "high"
    ELSE IF error_type \in {"ValueError", "TypeError", "KeyError"} THEN "medium"
    ELSE "low"

\* the message of the exceptions reported by the callers (str(error))
ErrorMessage == "x"

\* the ErrorContext of a fault; message, stack trace and context are not kept
\* (the engine never reads them back), nor is the timestamp (see
\* get_error_statistics)
create_error_context(error_type, agent_role, task_id) ==
    [error_type |-> error_type, agent_role |-> agent_role, task_id |-> task_id,
     severity |-> determine_error_severity(error_type, ErrorMessage)]

default_retry_handler ==
    Result(TRUE, "retry", "Retrying operation",
           RecoveryAction("retry", [delay |-> 5]))

connection_error_handler ==
    Result(TRUE, "retry_with_backoff", "Retrying connection with exponential backoff",
           RecoveryAction("retry", [delay |-> 10, max_delay |-> 60]))

memory_error_handler ==
    Result(FALSE, "escalate", "Memory error requires immediate attention",
           RecoveryAction("escalate", [escalation_level |-> "critical"]))

file_not_found_handler ==
    Result(TRUE, "fallback", "Using fallback file or creating missing file",
           RecoveryAction("fallback", [fallback_file |-> "default.txt"]))

\* handler(error_context): the dict it returns, or the exception it raises
handler_call(handler) ==
    CASE handler = "default_retry_handler" ->
            [raised |-> FALSE, exc |-> "", result |-> default_retry_handler]
      [] handler = "connection_error_handler" ->
            [raised |-> FALSE, exc |-> "", result |-> connection_error_handler]
      [] handler = "memory_error_handler" ->
            [raised |-> FALSE, exc |-> "", result |-> memory_error_handler]
      [] handler = "file_not_found_handler" ->
            [raised |-> FALSE, exc |-> "", result |-> file_not_found_handler]
      [] OTHER ->
            [raised |-> TRUE, exc |-> "handler failed", result |-> NoResult]

resolve_default_escalate(strategies, error_type) ==
    IF error_type \in DOMAIN strategies
    THEN strategies[error_type]
    ELSE [strategy |-> "escalate", handler |-> "memory_error_handler",
          success_probability |-> 50]

\* recovery_strategies.get(error_type), or the default strategy
resolve(strategies, error_type) ==
    IF error_type \in DOMAIN strategies
    THEN strategies[error_type]
    ELSE [strategy |-> "retry", handler |-> "default_retry_handler",
          success_probability |-> 50]

register_if_absent(strategies, error_type, strategy, handler) ==
    IF error_type \in DOMAIN strategies
    THEN strategies
    ELSE [x \in DOMAIN strategies \cup {error_type} |->
            IF x = error_type
            THEN [strategy |-> strategy, handler |-> handler, success_probability |-> 80]
            ELSE strategies[x]]

\* self.recovery_strategies[error_type] = {...}, success_probability left at 0.8
register_recovery_strategy(strategies, error_type, strategy, handler) ==
    Put(strategies, error_type,
        [strategy |-> strategy, handler |-> handler, success_probability |-> 80])

timeout_passed_ge(t_now, opened) == t_now - opened >= circuit_breaker_timeout

\* datetime.now() - opened_at > timedelta(seconds=self.circuit_breaker_timeout)
timeout_passed(t_now, opened) == t_now - opened > circuit_breaker_timeout

is_circuit_breaker_open_never(breakers, agent_role, error_type, t_now) ==
    [raised |-> FALSE, value |-> FALSE, breakers |-> breakers]

\* is_circuit_breaker_open: the value returned (or the TypeError of
\* datetime.now() - None) and the breaker table it leaves
is_circuit_breaker_open(breakers, agent_role, error_type, t_now) ==
    LET key == breaker_key(agent_role, error_type) IN
    IF key \notin DOMAIN breakers
    THEN [raised |-> FALSE, value |-> FALSE, breakers |-> breakers]
    ELSE IF breakers[key].opened_at = None
    THEN [raised |-> TRUE, value |-> FALSE, breakers |-> breakers]
    ELSE IF timeout_passed(t_now, breakers[key].opened_at)
    THEN [raised |-> FALSE, value |-> FALSE, breakers |-> Del(breakers, key)]
    ELSE [raised |-> FALSE, value |-> breakers[key].is_open, breakers |-> breakers]

on_success_keep_count(info) == [info EXCEPT !.is_open = FALSE]

\* the success branch of update_circuit_breaker
on_success(info) == [info EXCEPT !.failure_count = 0, !.is_open = FALSE]

on_failure_gt(info, t_now) ==
    LET count == info.failure_count + 1
    IN  IF count > circuit_breaker_threshold
        THEN [failure_count |-> count, is_open |-> TRUE, opened_at |-> t_now]
        ELSE [info EXCEPT !.failure_count = count]

\* the failure branch of update_circuit_breaker
on_failure(info, t_now) ==
    LET count == info.failure_count + 1
    IN  IF count >= circuit_breaker_threshold
        THEN [failure_count |-> count, is_open |-> TRUE, opened_at |-> t_now]
        ELSE [info EXCEPT !.failure_count = count]

update_circuit_breaker(breakers, agent_role, error_type, success, t_now) ==
    LET key == breaker_key(agent_role, error_type)
        info == Get(breakers, key,
                    [failure_count |-> 0, is_open |-> FALSE, opened_at |-> None])
    IN  Put(breakers, key, IF success THEN on_success(info) ELSE on_failure(info, t_now))

\* the breaker entry of a pair; a pair without entry is closed with no failures
breaker_info(breakers, agent_role, error_type) ==
    Get(breakers, breaker_key(agent_role, error_type),
        [failure_count |-> 0, is_open |-> FALSE, opened_at |-> None])

failure_count(breakers, agent_role, error_type) ==
    breaker_info(breakers, agent_role, error_type).failure_count

is_open(breakers, agent_role, error_type) ==
    breaker_info(breakers, agent_role, error_type).is_open

opened_at(breakers, agent_role, error_type) ==
    breaker_info(breakers, agent_role, error_type).opened_at

\* self.retry_counts.get(retry_key, 0)
retry_count(retries, agent_role, task_id, error_type) ==
    Get(retries, retry_key(agent_role, task_id, error_type), 0)

handle_circuit_breaker_open_retry(error_context) ==
    [success |-> FALSE, strategy |-> "circuit_breaker_open",
     message |-> "Circuit breaker is open",
     recovery_action |-> [strategy |-> "retry", parameters |-> [delay |-> 5]]]

handle_circuit_breaker_open(error_context) ==
    Result(FALSE, "circuit_breaker_open", "Circuit breaker is open",
           RecoveryAction("escalate", [escalation_level |-> "high"]))

recovery_failed_no_message(strategy, exc) ==
    Result(FALSE, strategy, "Recovery failed", NoAction)

\* the dict attempt_recovery returns when the handler raised exc
recovery_failed(strategy, exc) ==
    Result(FALSE, strategy, "Recovery failed: " \o exc, NoAction)

budget_exhausted_gt(count) == count > max_retries

budget_exhausted_never(count) == FALSE

\* if retry_count >= self.max_retries:
budget_exhausted(count) == count >= max_retries

\* attempt_recovery: the result, the retry table it leaves, and whether the
\* handler was invoked
attempt_recovery(strategies, retries, error_context) ==
    LET info == resolve(strategies, error_context.error_type)
        key == retry_key(error_context.agent_role, error_context.task_id,
                         error_context.error_type)
        count == retry_count(retries, error_context.agent_role,
                             error_context.task_id, error_context.error_type)
        out == handler_call(info.handler)
    IN  IF budget_exhausted(count)
        THEN [result |-> Result(FALSE, "max_retries_exceeded",
                                "Maximum retries exceeded", NoAction),
              retry_counts |-> retries, handler_called |-> FALSE]
        ELSE IF out.raised
        THEN [result |-> recovery_failed(info.strategy, out.exc),
              retry_counts |-> retries, handler_called |-> TRUE]
        ELSE IF out.result.success
        THEN [result |-> out.result, retry_counts |-> Put(retries, key, 0),
              handler_called |-> TRUE]
        ELSE [result |-> out.result,
              retry_counts |-> Put(retries, key, count + 1),
              handler_called |-> TRUE]

(* ------------------------------- state -------------------------------- *)

VARIABLES
    error_history,        \* list of ErrorContext
    recovery_strategies,  \* error_type -> strategy info
    circuit_breakers,     \* breaker key -> breaker info
    retry_counts,         \* retry key -> count
    lock,                 \* the thread holding self.lock, or "free"
    now,                  \* datetime.now(), in seconds
    pc,                   \* each thread's position in handle_error
    ectx,                 \* each thread's error_context
    recovery_result,      \* each thread's recovery_result and handler flag
    last_return,          \* the handle_error call that ended last, and how
    calls,                \* handle_error calls entered so far
    api,                  \* the last direct breaker call, what it found and gave
    wrapper,              \* the invocation of a decorated function in progress
    message_queue,        \* the heap list of the hub's PriorityQueue
    message_history,      \* the hub's list of sent messages, as dicts
    receiver,             \* the receive_message call in progress
    hub_calls             \* send_message and receive_message calls so far

engine == <<error_history, recovery_strategies, circuit_breakers, retry_counts>>
locals == <<pc, ectx, recovery_result, last_return, calls, wrapper>>
hub == <<message_queue, message_history, receiver, hub_calls>>
vars == <<error_history, recovery_strategies, circuit_breakers, retry_counts,
          lock, now, pc, ectx, recovery_result, last_return, calls, api, wrapper,
          message_queue, message_history, receiver, hub_calls>>

NoApi == [op |-> "none", agent_role |-> "", error_type |-> "", success |-> FALSE,
          value |-> "none", before_count |-> 0]

NoRecovery == [result |-> NoResult, handler_called |-> FALSE]

\* no message
NoMessage == [id |-> "", sender |-> "", recipient |-> "", message_type |-> "",
              priority |-> 0]

\* no receive_message call is in progress
NoReceiver == [pc |-> "idle", agent_role |-> "", held |-> NoMessage]

\* no decorated function has been invoked yet
NoWrapper == [pc |-> "idle", agent_role |-> "", task_id |-> "", e |-> "",
              op_calls |-> 0, handle_calls |-> 0, outcome |-> "none", exc |-> "",
              source |-> "", n |-> 0]

Init ==
    /\ error_history = <<>>
    /\ recovery_strategies = <<>>
    /\ circuit_breakers = <<>>
    /\ retry_counts = <<>>
    /\ lock = "free"
    /\ now = 0
    /\ pc = [t \in Threads |-> "idle"]
    /\ ectx = [t \in Threads |-> NoContext]
    /\ recovery_result = [t \in Threads |-> NoRecovery]
    /\ last_return = NoReturn
    /\ calls = 0
    /\ api = NoApi
    /\ wrapper = NoWrapper
    /\ message_queue = <<>>
    /\ message_history = <<>>
    /\ receiver = NoReceiver
    /\ hub_calls = [sends |-> 0, receives |-> 0]

(* ------------------------------ actions ------------------------------- *)

\* handle_error is entered: create_error_context, before the lock
HandleError(t, input, limit) ==
    /\ pc[t] = "idle"
    /\ calls < limit
    /\ calls' = calls + 1
    /\ ectx' = [ectx EXCEPT ![t] = create_error_context(input[3], input[1], input[2])]
    /\ pc' = [pc EXCEPT ![t] = "lock"]
    /\ UNCHANGED <<engine, lock, now, hub, recovery_result, last_return, api, wrapper>>

can_acquire_always(l) == TRUE

\* whether "with self.lock:" lets a thread in
can_acquire(l) == l = "free"

\* with self.lock:
AcquireLock(t) ==
    /\ pc[t] = "lock"
    /\ can_acquire(lock)
    /\ lock' = t
    /\ pc' = [pc EXCEPT ![t] = "append"]
    /\ UNCHANGED <<engine, now, hub, ectx, recovery_result, last_return, calls, api, wrapper>>

append_history_once(history, error_context) ==
    IF \E j \in 1..Len(history) : history[j] = error_context
    THEN history
    ELSE Append(history, error_context)

append_history_front(history, error_context) == <<error_context>> \o history

\* self.error_history.append(error_context)
append_history(history, error_context) == Append(history, error_context)

AppendHistory(t) ==
    /\ pc[t] = "append"
    /\ error_history' = append_history(error_history, ectx[t])
    /\ pc' = [pc EXCEPT ![t] = "check"]
    /\ UNCHANGED <<recovery_strategies, circuit_breakers, retry_counts, lock, now, hub,
                   ectx, recovery_result, last_return, calls, api, wrapper>>

release_never(t, outcome) == t

release_on_return_only(t, outcome) ==
    IF outcome.state = "raised" THEN t ELSE "free"

\* the lock when thread t leaves "with self.lock:" with outcome: the with
\* statement releases it on return and on exception alike
release(t, outcome) == "free"

\* thread t leaves the with block, by return or by exception
Leave(t, outcome) ==
    /\ last_return' = outcome
    /\ pc' = [pc EXCEPT ![t] = "idle"]
    /\ ectx' = [ectx EXCEPT ![t] = NoContext]
    /\ recovery_result' = [recovery_result EXCEPT ![t] = NoRecovery]
    /\ lock' = release(t, outcome)

\* if self.is_circuit_breaker_open(...): return self.handle_circuit_breaker_open(...)
CheckBreaker(t) ==
    /\ pc[t] = "check"
    /\ LET q == is_circuit_breaker_open(circuit_breakers, ectx[t].agent_role,
                                        ectx[t].error_type, now)
       IN  /\ circuit_breakers' = q.breakers
           /\ IF q.raised
              THEN Leave(t, Raised(ectx[t], "TypeError"))
              ELSE IF q.value
              THEN Leave(t, Returned(ectx[t], handle_circuit_breaker_open(ectx[t]), FALSE))
              ELSE /\ pc' = [pc EXCEPT ![t] = "recover"]
                   /\ UNCHANGED <<ectx, recovery_result, last_return, lock>>
    /\ UNCHANGED <<error_history, recovery_strategies, retry_counts, now, hub, calls, api, wrapper>>

\* a handler that does not return (it waits for something that never comes)
blocks(handler) == handler = "blocking_handler"

\* the handler attempt_recovery is about to invoke for error_context, if any
handler_to_call(strategies, retries, error_context) ==
    IF budget_exhausted(retry_count(retries, error_context.agent_role,
                                    error_context.task_id, error_context.error_type))
    THEN "none"
    ELSE resolve(strategies, error_context.error_type).handler

\* attempt_recovery invokes a handler that blocks: the thread stays inside
\* handler(error_context), inside the with block of handle_error
HandlerBlocks(t) ==
    /\ pc[t] = "recover"
    /\ blocks(handler_to_call(recovery_strategies, retry_counts, ectx[t]))
    /\ pc' = [pc EXCEPT ![t] = "handler"]
    /\ UNCHANGED <<engine, lock, now, hub, ectx, recovery_result, last_return, calls, api, wrapper>>

\* recovery_result = self.attempt_recovery(error_context)
AttemptRecovery(t) ==
    /\ pc[t] = "recover"
    /\ ~blocks(handler_to_call(recovery_strategies, retry_counts, ectx[t]))
    /\ LET r == attempt_recovery(recovery_strategies, retry_counts, ectx[t])
       IN  /\ retry_counts' = r.retry_counts
           /\ recovery_result' = [recovery_result EXCEPT ![t] =
                    [result |-> r.result, handler_called |-> r.handler_called]]
    /\ pc' = [pc EXCEPT ![t] = "update"]
    /\ UNCHANGED <<error_history, recovery_strategies, circuit_breakers, lock, now, hub,
                   ectx, last_return, calls, api, wrapper>>

recorded_outcome_unless_refused(result) ==
    result.success \/ result.strategy = "max_retries_exceeded"

\* the success argument handle_error passes to update_circuit_breaker
recorded_outcome(result) == result.success

\* self.update_circuit_breaker(...); return recovery_result
UpdateBreaker(t) ==
    /\ pc[t] = "update"
    /\ circuit_breakers' = update_circuit_breaker(circuit_breakers, ectx[t].agent_role,
                               ectx[t].error_type, recorded_outcome(recovery_result[t].result), now)
    /\ Leave(t, Returned(ectx[t], recovery_result[t].result,
                         recovery_result[t].handler_called))
    /\ UNCHANGED <<error_history, recovery_strategies, retry_counts, now, hub, calls, api, wrapper>>

\* register_recovery_strategy(error_type, strategy, handler)
Register(error_type, reg) ==
    /\ recovery_strategies' =
           register_recovery_strategy(recovery_strategies, error_type, reg[1], reg[2])
    /\ UNCHANGED <<error_history, circuit_breakers, retry_counts, lock, now, hub, locals, api>>

\* the strategies are registered at process start, before the first call
RegisterAtStart(error_type, reg) ==
    /\ error_history = <<>>
    /\ \A t \in Threads : pc[t] = "idle"
    /\ Register(error_type, reg)

\* time passes
Tick ==
    /\ now + TickStep <= MaxNow
    /\ now' = now + TickStep
    /\ UNCHANGED <<engine, lock, locals, api, hub>>

\* update_circuit_breaker called directly (the spec's record_outcome)
DirectUpdate(pair, success) ==
    /\ lock = "free"
    /\ success \/ failure_count(circuit_breakers, pair[1], pair[2]) < MaxFailureCount
    /\ circuit_breakers' =
           update_circuit_breaker(circuit_breakers, pair[1], pair[2], success, now)
    /\ UNCHANGED <<error_history, recovery_strategies, retry_counts, lock, now, hub, locals>>

\* a driver records an outcome; api keeps the call and the count it found
RecordOutcome(pair, success) ==
    /\ DirectUpdate(pair, success)
    /\ api' = [op |-> "update_circuit_breaker", agent_role |-> pair[1],
               error_type |-> pair[2], success |-> success, value |-> "none",
               before_count |-> failure_count(circuit_breakers, pair[1], pair[2])]

\* a fixture records outcomes before the first handle_error call starts
ArrangeOutcome(pair, success) ==
    /\ error_history = <<>>
    /\ \A t \in Threads : pc[t] = "idle"
    /\ DirectUpdate(pair, success)
    /\ UNCHANGED api

\* is_circuit_breaker_open called directly (the spec's is_open), by the driver
QueryIsOpen(pair) ==
    /\ lock = "free"
    /\ LET q == is_circuit_breaker_open(circuit_breakers, pair[1], pair[2], now)
       IN  /\ circuit_breakers' = q.breakers
           /\ api' = [op |-> "is_circuit_breaker_open", agent_role |-> pair[1],
                      error_type |-> pair[2], success |-> FALSE,
                      value |-> IF q.raised THEN "TypeError"
                                ELSE IF q.value THEN "True" ELSE "False",
                      before_count |->
                          failure_count(circuit_breakers, pair[1], pair[2])]
    /\ UNCHANGED <<error_history, recovery_strategies, retry_counts, lock, now, hub, locals>>

(* --------------------------- specifications --------------------------- *)

\* the steps of one handle_error call
Steps(t) ==
    \/ AcquireLock(t)
    \/ AppendHistory(t)
    \/ CheckBreaker(t)
    \/ AttemptRecovery(t)
    \/ UpdateBreaker(t)

\* concurrent callers reporting faults of one (agent_role, error_type), strategy
\* registration at any time, the clock, and breakers arranged before the calls
Next ==
    \/ \E t \in Threads, input \in SamePairInputs : HandleError(t, input, MaxCalls)
    \/ \E t \in Threads : Steps(t)
    \/ \E k \in ErrorTypes, reg \in Registrations : Register(k, reg)
    \/ \E pair \in SamePairs, success \in BOOLEAN : ArrangeOutcome(pair, success)
    \/ Tick

Spec == Init /\ [][Next]_vars

\* one caller: strategies registered at start, then one call after another
NextSeq ==
    \/ \E k \in ErrorTypes, reg \in Registrations : RegisterAtStart(k, reg)
    \/ \E input \in Inputs : HandleError("t1", input, MaxSeqCalls)
    \/ Steps("t1")

SpecSeq == Init /\ [][NextSeq]_vars

\* the circuit breaker driven directly
NextBreaker ==
    \/ \E pair \in Pairs, success \in BOOLEAN : RecordOutcome(pair, success)
    \/ \E pair \in Pairs : QueryIsOpen(pair)
    \/ Tick

SpecBreaker == Init /\ [][NextBreaker]_vars

\* two callers and a registry that may hold a handler that blocks
BlockingRegistrations == Registrations \cup {<<"retry", "blocking_handler">>}

NextBlock ==
    \/ \E k \in ErrorTypes, reg \in BlockingRegistrations : RegisterAtStart(k, reg)
    \/ \E t \in Threads, input \in SamePairInputs : HandleError(t, input, MaxCalls)
    \/ \E t \in Threads : Steps(t)
    \/ \E t \in Threads : HandlerBlocks(t)
    \/ \E pair \in SamePairs, success \in BOOLEAN : ArrangeOutcome(pair, success)
    \/ Tick

SpecBlock == Init /\ [][NextBlock]_vars

(* ---------------------- error_handler_decorator ----------------------- *)

\* wrapper invocations in one run
MaxWrapCalls == 4

\* an argument that was not given (Python's None; an f-string renders it "None")
Missing == "None"

\* the operation returned without raising
NoFault == "none"

\* (agent_role, task_id) given to error_handler_decorator
WrapperArgs == {<<"qa", "t1">>, <<"qa", Missing>>}

WrapperRegistrations == Registrations \cup {<<"fallback", "file_not_found_handler">>}

\* task_id or "unknown"
task_id_or_unknown(task_id) == IF task_id = Missing THEN "unknown" ELSE task_id

should_retry_any_action(result) ==
    result.success /\ result.recovery_action /= NoAction

\* recovery_result["success"] and recovery_action and
\* recovery_action.strategy == RecoveryStrategy.RETRY
should_retry(result) ==
    /\ result.success
    /\ result.recovery_action /= NoAction
    /\ result.recovery_action.strategy = "retry"

\* wrapper(*args): func is invoked; it returns, or raises fault
WrapperCall(args, fault) ==
    /\ wrapper.pc \in {"idle", "done"}
    /\ wrapper.n < MaxWrapCalls
    /\ wrapper' =
          IF fault = NoFault
          THEN [pc |-> "done", agent_role |-> args[1], task_id |-> args[2], e |-> "",
                op_calls |-> 1, handle_calls |-> 0, outcome |-> "returned",
                exc |-> "", source |-> "", n |-> wrapper.n + 1]
          ELSE [pc |-> "except", agent_role |-> args[1], task_id |-> args[2],
                e |-> fault, op_calls |-> 1, handle_calls |-> 0, outcome |-> "none",
                exc |-> "", source |-> "", n |-> wrapper.n + 1]
    /\ UNCHANGED <<engine, lock, now, hub, pc, ectx, recovery_result, last_return, calls, api>>

\* except Exception as e: error_handler.handle_error(e, agent_role, task_id or "unknown")
WrapperHandle(t) ==
    /\ wrapper.pc = "except"
    /\ pc[t] = "idle"
    /\ calls' = calls + 1
    /\ ectx' = [ectx EXCEPT ![t] =
                   create_error_context(wrapper.e, wrapper.agent_role,
                                        task_id_or_unknown(wrapper.task_id))]
    /\ pc' = [pc EXCEPT ![t] = "lock"]
    /\ wrapper' = [wrapper EXCEPT !.pc = "handling", !.handle_calls = @ + 1]
    /\ UNCHANGED <<engine, lock, now, hub, recovery_result, last_return, api>>

\* handle_error is over: its exception leaves the wrapper, or func is invoked
\* once more (and returns, or raises fault), or e is raised again
WrapperDecide(t, fault) ==
    /\ wrapper.pc = "handling"
    /\ pc[t] = "idle"
    /\ wrapper' =
          IF last_return.state = "raised"
          THEN [wrapper EXCEPT !.pc = "done", !.outcome = "raised",
                               !.exc = last_return.exc, !.source = "handle_error"]
          ELSE IF should_retry(last_return.result)
          THEN IF fault = NoFault
               THEN [wrapper EXCEPT !.pc = "done", !.op_calls = @ + 1,
                                    !.outcome = "returned"]
               ELSE [wrapper EXCEPT !.pc = "done", !.op_calls = @ + 1,
                                    !.outcome = "raised", !.exc = fault,
                                    !.source = "second_call"]
          ELSE [wrapper EXCEPT !.pc = "done", !.outcome = "raised",
                               !.exc = wrapper.e, !.source = "raise_e"]
    /\ UNCHANGED <<engine, lock, now, hub, pc, ectx, recovery_result, last_return, calls, api>>

\* a decorated function invoked again and again by one thread
NextWrap ==
    \/ \E k \in ErrorTypes, reg \in WrapperRegistrations : RegisterAtStart(k, reg)
    \/ \E pair \in SamePairs, success \in BOOLEAN : ArrangeOutcome(pair, success)
    \/ \E args \in WrapperArgs, fault \in ErrorTypes \cup {NoFault} :
           WrapperCall(args, fault)
    \/ WrapperHandle("t1")
    \/ Steps("t1")
    \/ \E fault \in ErrorTypes \cup {NoFault} : WrapperDecide("t1", fault)
    \/ Tick

SpecWrap == Init /\ [][NextWrap]_vars

(* ------------------------ the strategy registry ----------------------- *)

\* the error types the module registers strategies for
RegistryKinds == {"ConnectionError", "FileNotFoundError", "TimeoutError", "MemoryError"}

\* register_recovery_strategy called by a driver; api keeps the error type and
\* the handler that was registered for it before the call
RegisterCall(error_type, reg) ==
    /\ recovery_strategies' =
           register_recovery_strategy(recovery_strategies, error_type, reg[1], reg[2])
    /\ api' = [op |-> "register_recovery_strategy", agent_role |-> "",
               error_type |-> error_type, success |-> FALSE,
               value |-> IF error_type \in DOMAIN recovery_strategies
                         THEN recovery_strategies[error_type].handler
                         ELSE "none",
               before_count |-> 0]
    /\ UNCHANGED <<error_history, circuit_breakers, retry_counts, lock, now, hub, locals>>

NextRegistry ==
    \E k \in RegistryKinds, reg \in WrapperRegistrations : RegisterCall(k, reg)

SpecRegistry == Init /\ [][NextRegistry]_vars

(* ------------------------- malformed input ---------------------------- *)

\* handle_error calls with agent_role or task_id not given
InvalidInputs ==
    { <<Missing, "t1", "ConnectionError">>,
      <<"qa", Missing, "ConnectionError">> }

\* one caller whose calls may lack agent_role or task_id
NextInvalid ==
    \/ \E k \in ErrorTypes, reg \in Registrations : RegisterAtStart(k, reg)
    \/ \E input \in SamePairInputs \cup InvalidInputs :
           HandleError("t1", input, MaxCalls)
    \/ Steps("t1")

SpecInvalid == Init /\ [][NextInvalid]_vars

(* ---------------------- statistics and reports ------------------------ *)

\* severity_counts: how many records of the history have each severity
severity_counts(history) ==
    [k \in {history[j].severity : j \in 1..Len(history)} |->
        Cardinality({j \in 1..Len(history) : history[j].severity = k})]

agent_counts(history) ==
    [k \in {history[j].agent_role : j \in 1..Len(history)} |->
        Cardinality({j \in 1..Len(history) : history[j].agent_role = k})]

error_type_counts(history) ==
    [k \in {history[j].error_type : j \in 1..Len(history)} |->
        Cardinality({j \in 1..Len(history) : history[j].error_type = k})]

\* the dict get_error_statistics returns.  Every record of a run is younger
\* than one hour (the clock stops at MaxNow), so recent_errors is the total.
get_error_statistics(history, breakers, retries) ==
    IF Len(history) = 0
    THEN [total_errors |-> 0]
    ELSE [total_errors |-> Len(history),
          recent_errors |-> Len(history),
          severity_breakdown |-> severity_counts(history),
          agent_breakdown |-> agent_counts(history),
          error_type_breakdown |-> error_type_counts(history),
          circuit_breakers_open |->
              Cardinality({k \in DOMAIN breakers : breakers[k].is_open}),
          active_retry_counts |-> retries]

exceeds_ge(count, threshold) == count >= threshold

\* the comparisons of generate_error_recommendations: count > threshold
exceeds(count, threshold) == count > threshold

stability_review == "High error count detected - consider system stability review"

recent_spike == "Recent error spike detected - investigate recent changes"

manual_intervention(open_count) ==
    ToString(open_count)
       \o " circuit breakers are open - manual intervention may be required"

preventive_measures(error_type) ==
    "High frequency of " \o error_type \o " errors - consider preventive measures"

\* the loop over error_type_breakdown: one entry for each error type counted
\* more than 20 times (the dict is walked in some order)
RECURSIVE frequent_kinds(_, _)
frequent_kinds(counts, kinds) ==
    IF kinds = {}
    THEN <<>>
    ELSE LET k == CHOOSE x \in kinds : TRUE
         IN  (IF exceeds(counts[k], 20) THEN <<preventive_measures(k)>> ELSE <<>>)
             \o frequent_kinds(counts, kinds \ {k})

\* generate_error_recommendations(stats): the list, or the KeyError of
\* stats["recent_errors"] / stats["circuit_breakers_open"]
generate_error_recommendations(stats) ==
    IF ~({"total_errors", "recent_errors", "circuit_breakers_open"} \subseteq DOMAIN stats)
    THEN [raised |-> TRUE, exc |-> "KeyError", value |-> <<>>]
    ELSE LET error_type_counts_of_stats ==
                 IF "error_type_breakdown" \in DOMAIN stats
                 THEN stats.error_type_breakdown
                 ELSE <<>>
         IN  [raised |-> FALSE, exc |-> "",
              value |->
                 (IF exceeds(stats.total_errors, 100) THEN <<stability_review>> ELSE <<>>)
                 \o (IF exceeds(stats.recent_errors, 10) THEN <<recent_spike>> ELSE <<>>)
                 \o (IF exceeds(stats.circuit_breakers_open, 0)
                     THEN <<manual_intervention(stats.circuit_breakers_open)>>
                     ELSE <<>>)
                 \o frequent_kinds(error_type_counts_of_stats,
                                   DOMAIN error_type_counts_of_stats)]

\* create_error_report(): the report, or the exception that leaves it
create_error_report(history, breakers, retries, t_now) ==
    LET stats == get_error_statistics(history, breakers, retries)
        recs == generate_error_recommendations(stats)
    IN  IF recs.raised
        THEN [raised |-> TRUE, exc |-> recs.exc, value |-> <<>>]
        ELSE [raised |-> FALSE, exc |-> "",
              value |-> [report_type |-> "error_analysis",
                         generated_at |-> t_now,
                         summary |-> stats,
                         recommendations |-> recs.value,
                         circuit_breaker_status |->
                             [k \in DOMAIN breakers |->
                                 [is_open |-> breakers[k].is_open,
                                  failure_count |-> breakers[k].failure_count,
                                  opened_at |-> breakers[k].opened_at]]]]

\* error_handler.get_error_statistics() called by a driver (it takes the lock)
GetErrorStatistics ==
    /\ lock = "free"
    /\ api' = [op |-> "get_error_statistics", agent_role |-> "", error_type |-> "",
               success |-> FALSE,
               value |-> [raised |-> FALSE, exc |-> "",
                          value |-> get_error_statistics(error_history, circuit_breakers,
                                                         retry_counts)],
               before_count |-> 0]
    /\ UNCHANGED <<engine, lock, now, hub, locals>>

\* create_error_report() called by a driver and run to its end before any
\* other thread takes a step
CreateErrorReport ==
    /\ lock = "free"
    /\ api' = [op |-> "create_error_report", agent_role |-> "", error_type |-> "",
               success |-> FALSE,
               value |-> create_error_report(error_history, circuit_breakers,
                                             retry_counts, now),
               before_count |-> 0]
    /\ UNCHANGED <<engine, lock, now, hub, locals>>

\* one caller of handle_error, arranged breakers, and a driver asking for
\* statistics and reports at any time between the calls
NextStats ==
    \/ \E k \in ErrorTypes, reg \in Registrations : RegisterAtStart(k, reg)
    \/ \E pair \in SamePairs, success \in BOOLEAN : ArrangeOutcome(pair, success)
    \/ \E input \in Inputs : HandleError("t1", input, MaxCalls)
    \/ Steps("t1")
    \/ GetErrorStatistics
    \/ CreateErrorReport

SpecStats == Init /\ [][NextStats]_vars

(* --------------------------- error severity --------------------------- *)

\* handle_error calls in one run of the severity driver
MaxSeverityCalls == 2

\* the error types of the three membership lists, and two of no list
SeverityKinds ==
    {"SystemExit", "KeyboardInterrupt", "MemoryError",
     "ConnectionError", "TimeoutError", "FileNotFoundError",
     "ValueError", "TypeError", "KeyError",
     "RuntimeError", "ZeroDivisionError"}

SeverityMessages == {"x", "out of memory", "connection refused"}

\* faults of one kind of each severity reported through handle_error
SeverityInputs ==
    { <<"qa", "t1", "MemoryError">>, <<"qa", "t1", "ConnectionError">>,
      <<"qa", "t1", "ValueError">>, <<"qa", "t1", "RuntimeError">> }

\* determine_error_severity called by a driver; api keeps arguments and result
DetermineErrorSeverity(error_type, error_message) ==
    /\ api' = [op |-> "determine_error_severity", agent_role |-> "",
               error_type |-> error_type, error_message |-> error_message,
               success |-> FALSE,
               value |-> determine_error_severity(error_type, error_message),
               before_count |-> 0]
    /\ UNCHANGED <<engine, lock, now, hub, locals>>

NextSeverity ==
    \/ \E input \in SeverityInputs : HandleError("t1", input, MaxSeverityCalls)
    \/ Steps("t1")
    \/ \E k \in SeverityKinds, m \in SeverityMessages : DetermineErrorSeverity(k, m)
    \/ GetErrorStatistics
    \/ CreateErrorReport

SpecSeverity == Init /\ [][NextSeverity]_vars

(* ------------------------------ progress ------------------------------ *)

\* handle_error calls in one run of the fair scheduler
MaxLiveCalls == 4

\* concurrent callers, handlers that return, breakers arranged before the
\* calls; a thread inside handle_error is never suspended forever
NextLive ==
    \/ \E k \in ErrorTypes, reg \in Registrations : RegisterAtStart(k, reg)
    \/ \E pair \in SamePairs, success \in BOOLEAN : ArrangeOutcome(pair, success)
    \/ \E t \in Threads, input \in SamePairInputs : HandleError(t, input, MaxLiveCalls)
    \/ \E t \in Threads : Steps(t)

SpecLive ==
    /\ Init
    /\ [][NextLive]_vars
    /\ \A t \in Threads : WF_vars(Steps(t))

(* -------------------------- recommendations --------------------------- *)

\* statistics around the thresholds of generate_error_recommendations
StatsInputs ==
    [total_errors : {100, 101},
     recent_errors : {10, 11},
     severity_breakdown : {<<>>},
     agent_breakdown : {<<>>},
     error_type_breakdown : [{"ConnectionError", "ValueError"} -> {20, 21}],
     circuit_breakers_open : {0, 1, 2},
     active_retry_counts : {<<>>}]

\* generate_error_recommendations(stats) called by a driver
GenerateErrorRecommendations(stats) ==
    /\ api' = [op |-> "generate_error_recommendations", agent_role |-> "",
               error_type |-> "", success |-> FALSE, stats |-> stats,
               value |-> generate_error_recommendations(stats), before_count |-> 0]
    /\ UNCHANGED <<engine, lock, now, hub, locals>>

NextRecommend ==
    \/ \E stats \in StatsInputs : GenerateErrorRecommendations(stats)
    \/ \E input \in SeverityInputs : HandleError("t1", input, MaxSeverityCalls)
    \/ Steps("t1")
    \/ CreateErrorReport

SpecRecommend == Init /\ [][NextRecommend]_vars

(* ----------------- reports beside handle_error calls ------------------ *)

\* handle_error calls in one run beside the report driver
MaxReportCalls == 2

\* the circuit_breaker_status dict built from the breaker table
circuit_breaker_status(breakers) ==
    [k \in DOMAIN breakers |->
        [is_open |-> breakers[k].is_open,
         failure_count |-> breakers[k].failure_count,
         opened_at |-> breakers[k].opened_at]]

\* the driver is inside create_error_report
ReportInProgress ==
    /\ api.op = "create_error_report"
    /\ "stage" \in DOMAIN api
    /\ api.stage /= "done"

\* create_error_report, first part: get_error_statistics (under the lock) and
\* generate_error_recommendations; the KeyError of an empty history ends it
ReportSummary ==
    /\ ~ReportInProgress
    /\ lock = "free"
    /\ LET stats == get_error_statistics(error_history, circuit_breakers, retry_counts)
           recs == generate_error_recommendations(stats)
       IN  api' = [op |-> "create_error_report", agent_role |-> "", error_type |-> "",
                   success |-> FALSE, before_count |-> 0,
                   stage |-> IF recs.raised THEN "done" ELSE "summary",
                   summary |-> stats, recommendations |-> recs.value, size |-> 0,
                   value |-> [raised |-> recs.raised, exc |-> recs.exc, value |-> <<>>]]
    /\ UNCHANGED <<engine, lock, now, hub, locals>>

\* create_error_report, second part: the iteration over
\* error_handler.circuit_breakers.items() starts, without the lock
ReportIterate ==
    /\ ReportInProgress
    /\ api.stage = "summary"
    /\ api' = [api EXCEPT !.stage = "iterating",
                          !.size = Cardinality(DOMAIN circuit_breakers)]
    /\ UNCHANGED <<engine, lock, now, hub, locals>>

\* create_error_report, last part: the iteration reads the entries; a dict
\* whose size changed since the iteration started raises RuntimeError
ReportFinish ==
    /\ ReportInProgress
    /\ api.stage = "iterating"
    /\ api' = IF Cardinality(DOMAIN circuit_breakers) /= api.size
              THEN [api EXCEPT !.stage = "done",
                               !.value = [raised |-> TRUE, exc |-> "RuntimeError",
                                          value |-> <<>>]]
              ELSE [api EXCEPT !.stage = "done",
                               !.value =
                                  [raised |-> FALSE, exc |-> "",
                                   value |-> [report_type |-> "error_analysis",
                                              generated_at |-> now,
                                              summary |-> api.summary,
                                              recommendations |-> api.recommendations,
                                              circuit_breaker_status |->
                                                  circuit_breaker_status(circuit_breakers)]]]
    /\ UNCHANGED <<engine, lock, now, hub, locals>>

\* get_error_statistics called by the driver outside a report; the call keeps
\* the breaker table and the clock it ran against beside its return value
StatisticsQuery ==
    /\ ~ReportInProgress
    /\ lock = "free"
    /\ api' = [op |-> "get_error_statistics", agent_role |-> "", error_type |-> "",
               success |-> FALSE, before_count |-> 0,
               value |-> get_error_statistics(error_history, circuit_breakers,
                                              retry_counts),
               breakers |-> circuit_breakers, at |-> now]
    /\ UNCHANGED <<engine, lock, now, hub, locals>>

\* one caller of handle_error beside a driver that asks for statistics and
\* builds reports step by step, with arranged breakers and the clock
NextReport ==
    \/ \E k \in ErrorTypes, reg \in Registrations : RegisterAtStart(k, reg)
    \/ \E pair \in SamePairs, success \in BOOLEAN : ArrangeOutcome(pair, success)
    \/ \E input \in SamePairInputs : HandleError("t1", input, MaxReportCalls)
    \/ Steps("t1")
    \/ Tick
    \/ StatisticsQuery
    \/ ReportSummary
    \/ ReportIterate
    \/ ReportFinish

SpecReport == Init /\ [][NextReport]_vars

(* ------------------------- communication hub -------------------------- *)

\* send_message calls in one run of the hub
MaxHubSends == 3
\* receive_message calls in one run of the hub
MaxHubReceives == 3

\* message_history is cut when it grows beyond this length
history_limit == 1000
\* the number of latest entries kept by the cut
history_keep == 500

\* the roles that poll the hub
HubRoles == {"manager", "engineer", "tester"}

\* send_error_notification: to the manager, priority 4
ErrorNotification ==
    [id |-> "msg_engineer_error", sender |-> "engineer", recipient |-> "manager",
     message_type |-> "error_notification", priority |-> 4]

\* send_task_assignment: to the assignee, priority 3
TaskAssignment(assignee) ==
    [id |-> "msg_manager_" \o assignee, sender |-> "manager", recipient |-> assignee,
     message_type |-> "task_assignment", priority |-> 3]

\* send_task_completion: to the manager, priority 2
TaskCompletion ==
    [id |-> "msg_engineer_done", sender |-> "engineer", recipient |-> "manager",
     message_type |-> "task_completion", priority |-> 2]

\* send_coordination_request: a broadcast, priority 2
CoordinationRequest ==
    [id |-> "msg_tester_coord", sender |-> "tester", recipient |-> Missing,
     message_type |-> "coordination_request", priority |-> 2]

\* the messages sent in a run of the hub
HubMessages ==
    {ErrorNotification, TaskAssignment("engineer"), TaskAssignment("tester"),
     TaskCompletion, CoordinationRequest}

\* dataclasses.asdict of an AgentMessage: a dict with the message's fields
asdict(message) == [f \in DOMAIN message |-> message[f]]

\* the (priority, message) tuple put on the queue
queue_item(message) == [priority |-> message.priority, message |-> message]

\* (priority, message) < (priority, message): the priorities decide; with equal
\* priorities equal messages are not smaller, and different messages are
\* compared with <, which AgentMessage does not define (TypeError)
tuple_lt(x, y) ==
    IF x.priority /= y.priority
    THEN [raised |-> FALSE, value |-> x.priority < y.priority]
    ELSE IF x.message = y.message
    THEN [raised |-> FALSE, value |-> FALSE]
    ELSE [raised |-> TRUE, value |-> FALSE]

\* the heap list with the entries at 0-based positions i and j exchanged
swap(heap, i, j) == [heap EXCEPT ![i + 1] = heap[j + 1], ![j + 1] = heap[i + 1]]

\* the heap's sift towards the root: the entry at pos moves up while it is
\* smaller than its parent; a comparison that raises leaves it where it is
RECURSIVE siftdown(_, _, _)
siftdown(heap, startpos, pos) ==
    IF pos <= startpos
    THEN [raised |-> FALSE, heap |-> heap]
    ELSE LET parentpos == (pos - 1) \div 2
             c == tuple_lt(heap[pos + 1], heap[parentpos + 1])
         IN  IF c.raised THEN [raised |-> TRUE, heap |-> heap]
             ELSE IF ~c.value THEN [raised |-> FALSE, heap |-> heap]
             ELSE siftdown(swap(heap, pos, parentpos), startpos, parentpos)

\* the heap's sift towards the leaves: the entry at pos moves down below its
\* smaller child to a leaf and is then sifted up again
RECURSIVE siftup_from(_, _, _)
siftup_from(heap, startpos, pos) ==
    LET endpos == Len(heap)
        childpos == 2 * pos + 1
    IN  IF pos >= endpos \div 2
        THEN siftdown(heap, startpos, pos)
        ELSE LET c == IF childpos + 1 < endpos
                      THEN tuple_lt(heap[childpos + 1], heap[childpos + 2])
                      ELSE [raised |-> FALSE, value |-> TRUE]
                 child == IF c.value THEN childpos ELSE childpos + 1
             IN  IF c.raised THEN [raised |-> TRUE, heap |-> heap]
                 ELSE siftup_from(swap(heap, child, pos), startpos, child)

\* PriorityQueue.put: the item is appended to the heap list and sifted up
heappush(heap, item) == siftdown(Append(heap, item), 0, Len(heap))

\* PriorityQueue.get on a queue that is not empty: the last entry replaces the
\* root and is sifted down; the old root is the item returned, and it is gone
\* from the list also when a comparison raises
heappop(heap) ==
    LET lastelt == heap[Len(heap)]
        rest == SubSeq(heap, 1, Len(heap) - 1)
    IN  IF rest = <<>>
        THEN [raised |-> FALSE, item |-> lastelt, heap |-> <<>>]
        ELSE LET r == siftup_from([rest EXCEPT ![1] = lastelt], 0, 0)
             IN  [raised |-> r.raised, item |-> rest[1], heap |-> r.heap]

history_full_ge(history) == Len(history) >= history_limit

\* the test that starts the cut of message_history
history_full(history) == Len(history) > history_limit

\* message_history[-500:]
latest(history) ==
    IF Len(history) <= history_keep THEN history
    ELSE SubSeq(history, Len(history) - history_keep + 1, Len(history))

\* the history after send_message has appended the message's dict
append_message_history(history, message) ==
    LET appended == Append(history, asdict(message))
    IN  IF history_full(appended) THEN latest(appended) ELSE appended

\* the test of receive_message that hands a message to the caller
for_this_agent(message, agent_role) ==
    \/ message.recipient = Missing
    \/ message.recipient = agent_role
    \/ message.recipient = "manager"

\* what a hub call gave: its return value, the message sent or returned, and
\* the queue the call found
HubApi(op, agent_role, value, message, pending) ==
    [op |-> op, agent_role |-> agent_role, error_type |-> "", success |-> FALSE,
     value |-> value, before_count |-> 0, message |-> message, pending |-> pending]

\* send_message(message), the whole call: put and history under the hub lock;
\* a put that raises is caught and the call returns False
SendMessage(message, limit) ==
    /\ hub_calls.sends < limit
    /\ hub_calls' = [hub_calls EXCEPT !.sends = @ + 1]
    /\ LET r == heappush(message_queue, queue_item(message))
       IN  /\ message_queue' = r.heap
           /\ message_history' = IF r.raised THEN message_history
                                 ELSE append_message_history(message_history, message)
           /\ api' = HubApi("send_message", "", IF r.raised THEN "False" ELSE "True",
                            message, message_queue)
    /\ UNCHANGED <<engine, lock, now, locals, receiver>>

\* receive_message(agent_role) is entered and starts polling
ReceiveMessage(agent_role) ==
    /\ receiver.pc = "idle"
    /\ hub_calls.receives < MaxHubReceives
    /\ hub_calls' = [hub_calls EXCEPT !.receives = @ + 1]
    /\ receiver' = [pc |-> "polling", agent_role |-> agent_role, held |-> NoMessage]
    /\ UNCHANGED <<engine, lock, now, locals, api, message_queue, message_history>>

\* one message_queue.get of the polling loop: the message is returned to the
\* caller or kept to be put back; a get that raises ends the call with None
ReceiveGet ==
    /\ receiver.pc = "polling"
    /\ message_queue /= <<>>
    /\ LET r == heappop(message_queue)
           message == r.item.message
       IN  /\ message_queue' = r.heap
           /\ IF r.raised
              THEN /\ receiver' = NoReceiver
                   /\ api' = HubApi("receive_message", receiver.agent_role, "None",
                                    NoMessage, message_queue)
              ELSE IF for_this_agent(message, receiver.agent_role)
              THEN /\ receiver' = NoReceiver
                   /\ api' = HubApi("receive_message", receiver.agent_role, "message",
                                    message, message_queue)
              ELSE /\ receiver' = [receiver EXCEPT !.pc = "putback", !.held = message]
                   /\ UNCHANGED api
    /\ UNCHANGED <<engine, lock, now, locals, message_history, hub_calls>>

\* the message of another agent is put back on the queue; a put that raises
\* ends the call with None
ReceivePutBack ==
    /\ receiver.pc = "putback"
    /\ LET r == heappush(message_queue, queue_item(receiver.held))
       IN  /\ message_queue' = r.heap
           /\ IF r.raised
              THEN /\ receiver' = NoReceiver
                   /\ api' = HubApi("receive_message", receiver.agent_role, "None",
                                    NoMessage, message_queue)
              ELSE /\ receiver' = [receiver EXCEPT !.pc = "polling", !.held = NoMessage]
                   /\ UNCHANGED api
    /\ UNCHANGED <<engine, lock, now, locals, message_history, hub_calls>>

\* the timeout of receive_message passes: the call returns None
ReceiveTimeout ==
    /\ receiver.pc = "polling"
    /\ receiver' = NoReceiver
    /\ api' = HubApi("receive_message", receiver.agent_role, "None", NoMessage,
                     message_queue)
    /\ UNCHANGED <<engine, lock, now, locals, message_queue, message_history, hub_calls>>

\* senders and one receiver at a time on the hub
NextHub ==
    \/ \E message \in HubMessages : SendMessage(message, MaxHubSends)
    \/ \E agent_role \in HubRoles : ReceiveMessage(agent_role)
    \/ ReceiveGet
    \/ ReceivePutBack
    \/ ReceiveTimeout

SpecHub == Init /\ [][NextHub]_vars

\* send_message calls in a run that fills the history
MaxHistorySends == 1100

\* the n-th message of a run that fills the history; its priority is n
NumberedMessage(n) ==
    [id |-> "msg_" \o ToString(n), sender |-> "engineer", recipient |-> Missing,
     message_type |-> "status_update", priority |-> n]

\* one sender that sends message after message
NextHistory ==
    SendMessage(NumberedMessage(hub_calls.sends + 1), MaxHistorySends)

SpecHistory == Init /\ [][NextHistory]_vars

(* ------------------------------- claims ------------------------------- *)

\* every thread is outside handle_error and at least one call has been made
CallsEnded ==
    /\ Len(error_history) >= 1
    /\ \A t \in Threads : pc[t] = "idle"

\* every handle_error call so far was made for the triple input
AllCallsFor(input) ==
    \A j \in 1..Len(error_history) :
        error_history[j] = create_error_context(input[3], input[1], input[2])

\* every handle_error call so far was made for the (agent_role, error_type) pair
AllCallsForPair(pair) ==
    \A j \in 1..Len(error_history) :
        /\ error_history[j].agent_role = pair[1]
        /\ error_history[j].error_type = pair[2]

\* handler is the handler registered for error_type
Registered(error_type, handler) ==
    /\ error_type \in DOMAIN recovery_strategies
    /\ recovery_strategies[error_type].handler = handler

\* C1: every handle_error call with a present agent_role and task_id returns a
\* decision and none raises, for a registered or an unregistered error type,
\* also when the breaker entry of the pair exists, closed, with opened_at unset.
C1_NeverRaises == last_return.state /= "raised"

\* C2: with a handler registered that always returns success, every one of
\* n >= 1 consecutive calls for one triple returns success = true, and after
\* each call the retry counter of the triple and the failure_count of the
\* breaker of its pair are 0.
C2_AlwaysSucceeds ==
    \A input \in Inputs :
        ( /\ Registered(input[3], "connection_error_handler")
          /\ AllCallsFor(input)
          /\ CallsEnded )
        => /\ last_return.state = "returned"
           /\ last_return.result.success
           /\ retry_count(retry_counts, input[1], input[2], input[3]) = 0
           /\ failure_count(circuit_breakers, input[1], input[3]) = 0

\* C3: with a handler registered that always fails, after
\* circuit_breaker_threshold calls for one (agent_role, error_type), whatever
\* their task ids, the next call for the pair returns strategy
\* "circuit_breaker_open" and does not invoke the handler.
C3_BreakerTrips ==
    \A pair \in Pairs :
        ( /\ Registered(pair[2], "memory_error_handler")
          /\ AllCallsForPair(pair)
          /\ Len(error_history) > circuit_breaker_threshold
          /\ CallsEnded )
        => /\ last_return.state = "returned"
           /\ last_return.result.strategy = "circuit_breaker_open"
           /\ ~last_return.handler_called

\* C4: with a handler registered that always fails, after max_retries calls
\* for one triple the next call for the triple returns success = false with
\* strategy "max_retries_exceeded" and does not invoke the handler.
C4_BudgetCutoff ==
    \A input \in Inputs :
        ( /\ Registered(input[3], "memory_error_handler")
          /\ AllCallsFor(input)
          /\ Len(error_history) = max_retries + 1
          /\ CallsEnded )
        => /\ last_return.state = "returned"
           /\ ~last_return.result.success
           /\ last_return.result.strategy = "max_retries_exceeded"
           /\ ~last_return.handler_called

\* C5: a direct is_circuit_breaker_open query of an open breaker returns false
\* and leaves the breaker closed with failure_count 0 when
\* now - opened_at > circuit_breaker_timeout; when now - opened_at is at most
\* the timeout it returns true and changes nothing.
C5_AutoReset ==
    [][\A pair \in Pairs :
         (QueryIsOpen(pair) /\ is_open(circuit_breakers, pair[1], pair[2])) =>
            IF now - opened_at(circuit_breakers, pair[1], pair[2])
                   > circuit_breaker_timeout
            THEN /\ api'.value = "False"
                 /\ ~is_open(circuit_breakers', pair[1], pair[2])
                 /\ failure_count(circuit_breakers', pair[1], pair[2]) = 0
            ELSE /\ api'.value = "True"
                 /\ circuit_breakers' = circuit_breakers]_vars

\* an open breaker was queried after its timeout: it answered false and it is reset
C5_Witness ==
    /\ api.op = "is_circuit_breaker_open"
    /\ api.value = "False"
    /\ api.before_count >= circuit_breaker_threshold
    /\ breaker_key(api.agent_role, api.error_type) \notin DOMAIN circuit_breakers
    /\ failure_count(circuit_breakers, api.agent_role, api.error_type) = 0

\* C6: with k failures recorded for a pair, 1 <= k < circuit_breaker_threshold,
\* one recorded success sets failure_count to 0 and leaves the breaker closed;
\* every recorded failure raises failure_count by exactly 1 and the breaker is
\* open after it exactly when failure_count has reached the threshold, so a
\* reset breaker needs circuit_breaker_threshold further failures to trip.
C6_ResetOnSuccess ==
    [][\A pair \in Pairs :
         LET before == failure_count(circuit_breakers, pair[1], pair[2])
             after == failure_count(circuit_breakers', pair[1], pair[2])
         IN  /\ (RecordOutcome(pair, TRUE) /\ 1 <= before
                    /\ before < circuit_breaker_threshold)
                => (after = 0 /\ ~is_open(circuit_breakers', pair[1], pair[2]))
             /\ RecordOutcome(pair, FALSE)
                => /\ after = before + 1
                   /\ is_open(circuit_breakers', pair[1], pair[2])
                          <=> after >= circuit_breaker_threshold]_vars

\* a success was recorded on a closed breaker holding 1..threshold-1 failures
C6_Witness ==
    /\ api.op = "update_circuit_breaker"
    /\ api.success
    /\ 1 <= api.before_count
    /\ api.before_count < circuit_breaker_threshold
    /\ breaker_key(api.agent_role, api.error_type) \in DOMAIN circuit_breakers
    /\ failure_count(circuit_breakers, api.agent_role, api.error_type) = 0
    /\ ~is_open(circuit_breakers, api.agent_role, api.error_type)

\* C7: for each triple, a handle_error call for it whose handler returns
\* success = false raises the retry counter of the triple by exactly 1, one
\* whose handler returns success = true sets it to 0, and no other step (a
\* call for another triple, a short-circuited or a refused call) changes it;
\* the breaker of the pair then records the handler's success value.
C7_RetrySteps ==
    [][\A input \in Inputs :
         LET before == retry_count(retry_counts, input[1], input[2], input[3])
             after == retry_count(retry_counts', input[1], input[2], input[3])
             out == handler_call(resolve(recovery_strategies, input[3]).handler)
             \* thread t invokes the handler for the triple and gets a result
             Handled(t) ==
                 /\ pc[t] = "recover"
                 /\ pc'[t] = "update"
                 /\ ectx[t] = create_error_context(input[3], input[1], input[2])
                 /\ recovery_result'[t].handler_called
                 /\ ~out.raised
             \* thread t ends the call for the triple after a handler result
             Recorded(t) ==
                 /\ pc[t] = "update"
                 /\ pc'[t] = "idle"
                 /\ ectx[t] = create_error_context(input[3], input[1], input[2])
                 /\ recovery_result[t].handler_called
         IN  /\ IF \E t \in Threads : Handled(t)
                THEN after = IF out.result.success THEN 0 ELSE before + 1
                ELSE after = before
             /\ \A t \in Threads : Recorded(t) =>
                    failure_count(circuit_breakers', input[1], input[3]) =
                        IF recovery_result[t].result.success
                        THEN 0
                        ELSE failure_count(circuit_breakers, input[1], input[3]) + 1
      ]_vars

\* C8: in every reachable state every retry counter is between 0 and max_retries.
C8_RetryBound ==
    \A key \in DOMAIN retry_counts :
        0 <= retry_counts[key] /\ retry_counts[key] <= max_retries

\* a counter stands at max_retries and the call made then has been refused
C8_Witness ==
    /\ last_return.state = "returned"
    /\ last_return.result.strategy = "max_retries_exceeded"
    /\ retry_count(retry_counts, last_return.call.agent_role,
                   last_return.call.task_id, last_return.call.error_type) = max_retries

\* C9: every handle_error call appends exactly one record to the history,
\* whichever way it ends and however the callers interleave: the history
\* length is the number of calls that have passed the append step, and the
\* step that passes it appends the caller's own record.
C9_HistoryComplete ==
    /\ [](Len(error_history) =
            calls - Cardinality({t \in Threads : pc[t] \in {"lock", "append"}}))
    /\ [][\A t \in Threads :
            (pc[t] = "append" /\ pc'[t] /= "append") =>
                error_history' = Append(error_history, ectx[t])]_vars

\* MaxCalls calls are in the history, the last one to end was ended by an
\* open breaker, and another caller is between its append and its return
C9_Witness ==
    /\ Len(error_history) = MaxCalls
    /\ last_return.state = "returned"
    /\ last_return.result.strategy = "circuit_breaker_open"
    /\ \E t \in Threads : pc[t] = "check"

\* the (agent_role, error_type) of the call thread t is making
PairOf(t) == <<ectx[t].agent_role, ectx[t].error_type>>

\* C10: the breaker check and the breaker update of a handle_error call are
\* atomic with respect to the other callers: while a caller is between its
\* check and its update the breaker of its pair stays closed and below the
\* threshold, its update leaves failure_count at most the threshold and adds
\* exactly 1 for a failure, and a call that checks an open breaker before the
\* timeout returns "circuit_breaker_open".
C10_BreakerAtomic ==
    /\ [](\A t \in Threads :
            pc[t] \in {"recover", "update"} =>
                /\ ~is_open(circuit_breakers, PairOf(t)[1], PairOf(t)[2])
                /\ failure_count(circuit_breakers, PairOf(t)[1], PairOf(t)[2])
                       < circuit_breaker_threshold)
    /\ [][\A t \in Threads :
            LET before == failure_count(circuit_breakers, PairOf(t)[1], PairOf(t)[2])
                after == failure_count(circuit_breakers', PairOf(t)[1], PairOf(t)[2])
            IN  /\ (pc[t] = "update" /\ pc'[t] = "idle") =>
                      /\ after <= circuit_breaker_threshold
                      /\ ~recovery_result[t].result.success => after = before + 1
                /\ ( /\ pc[t] = "check"
                     /\ pc'[t] /= "check"
                     /\ is_open(circuit_breakers, PairOf(t)[1], PairOf(t)[2])
                     /\ before >= circuit_breaker_threshold
                     /\ now - opened_at(circuit_breakers, PairOf(t)[1], PairOf(t)[2])
                            <= circuit_breaker_timeout ) =>
                      /\ pc'[t] = "idle"
                      /\ last_return'.result.strategy = "circuit_breaker_open"]_vars

\* a failed call has just tripped the breaker at the threshold while another
\* caller, entered before, waits for the lock
C10_Witness ==
    /\ last_return.state = "returned"
    /\ last_return.handler_called
    /\ ~last_return.result.success
    /\ is_open(circuit_breakers, last_return.call.agent_role, last_return.call.error_type)
    /\ failure_count(circuit_breakers, last_return.call.agent_role,
                     last_return.call.error_type) = circuit_breaker_threshold
    /\ \E t \in Threads : pc[t] = "lock"

\* C11: the engine lock is not held while a strategy handler runs: a thread
\* inside its handler does not hold the lock, so another caller waiting for
\* the lock can go on.
C11_HandlerOutsideLock ==
    \A t \in Threads : pc[t] = "handler" => lock /= t

\* C12: a handle_error call that finds the breaker of its pair open (before the
\* timeout) returns success = false, strategy "circuit_breaker_open" and an
\* escalate action with escalation_level "high", invokes no handler, and
\* leaves the retry counters and the strategy registry unchanged.
C12_OpenShortCircuit ==
    [][\A t \in Threads :
         ( /\ pc[t] = "check"
           /\ pc'[t] /= "check"
           /\ is_open(circuit_breakers, PairOf(t)[1], PairOf(t)[2])
           /\ now - opened_at(circuit_breakers, PairOf(t)[1], PairOf(t)[2])
                  <= circuit_breaker_timeout ) =>
            /\ pc'[t] = "idle"
            /\ last_return'.state = "returned"
            /\ last_return'.call = ectx[t]
            /\ ~last_return'.result.success
            /\ last_return'.result.strategy = "circuit_breaker_open"
            /\ last_return'.result.recovery_action =
                   RecoveryAction("escalate", [escalation_level |-> "high"])
            /\ ~last_return'.handler_called
            /\ retry_counts' = retry_counts
            /\ recovery_strategies' = recovery_strategies]_vars

\* a call was short-circuited by an open breaker while a retry counter was
\* above 0 and a strategy was registered for its error type
C12_Witness ==
    /\ last_return.state = "returned"
    /\ last_return.result.strategy = "circuit_breaker_open"
    /\ last_return.call.error_type \in DOMAIN recovery_strategies
    /\ \E k \in DOMAIN retry_counts : retry_counts[k] > 0
    /\ is_open(circuit_breakers, last_return.call.agent_role, last_return.call.error_type)

\* C13: a handle_error call refused with "max_retries_exceeded" leaves the
\* retry counter of its triple (and every other counter) unchanged, does not
\* invoke the handler, and records one failure on the breaker of its pair:
\* failure_count rises by 1 and the breaker is open afterwards exactly if the
\* threshold is reached.
C13_RefusalCountsAsFailure ==
    [][\A t \in Threads :
         LET before == failure_count(circuit_breakers, PairOf(t)[1], PairOf(t)[2])
             after == failure_count(circuit_breakers', PairOf(t)[1], PairOf(t)[2])
         IN  /\ ( /\ pc[t] = "recover"
                  /\ pc'[t] = "update"
                  /\ retry_count(retry_counts, ectx[t].agent_role, ectx[t].task_id,
                                 ectx[t].error_type) >= max_retries ) =>
                   /\ retry_counts' = retry_counts
                   /\ ~recovery_result'[t].handler_called
                   /\ ~recovery_result'[t].result.success
                   /\ recovery_result'[t].result.strategy = "max_retries_exceeded"
             /\ ( /\ pc[t] = "update"
                  /\ pc'[t] = "idle"
                  /\ recovery_result[t].result.strategy = "max_retries_exceeded" ) =>
                   /\ last_return'.state = "returned"
                   /\ last_return'.result.strategy = "max_retries_exceeded"
                   /\ ~last_return'.result.success
                   /\ ~last_return'.handler_called
                   /\ retry_counts' = retry_counts
                   /\ after = before + 1
                   /\ is_open(circuit_breakers', PairOf(t)[1], PairOf(t)[2])
                          <=> after >= circuit_breaker_threshold]_vars

\* a refused call has just tripped the breaker of its pair
C13_Witness ==
    /\ last_return.state = "returned"
    /\ last_return.result.strategy = "max_retries_exceeded"
    /\ retry_count(retry_counts, last_return.call.agent_role, last_return.call.task_id,
                   last_return.call.error_type) = max_retries
    /\ is_open(circuit_breakers, last_return.call.agent_role, last_return.call.error_type)
    /\ failure_count(circuit_breakers, last_return.call.agent_role,
                     last_return.call.error_type) = circuit_breaker_threshold

C15_RetryOnce ==
    /\ wrapper.handle_calls <= 1
    /\ wrapper.op_calls <= 2
    /\ wrapper.pc = "done" =>
          /\ wrapper.op_calls = 2 <=>
                /\ wrapper.e /= ""
                /\ wrapper.handle_calls = 1
                /\ last_return.state = "returned"
                /\ last_return.result.success
                /\ last_return.result.recovery_action.strategy = "retry"
          /\ wrapper.source = "second_call" =>
                /\ wrapper.outcome = "raised"
                /\ wrapper.op_calls = 2
                /\ wrapper.handle_calls = 1

\* the function was invoked a second time after a retry decision and raised
\* again, in a second or later invocation of the decorated function; a call
\* was made for a decorator without task_id
C15_Witness ==
    /\ wrapper.pc = "done"
    /\ wrapper.op_calls = 2
    /\ wrapper.source = "second_call"
    /\ wrapper.n >= 2
    /\ \E j \in 1..Len(error_history) : error_history[j].task_id = "unknown"

\* C16: when the decorated function raises and no second invocation is made
\* (the recovery did not succeed or its action is not retry), the exception
\* that reaches the caller is the original exception of the function, in
\* every engine state.
C16_OriginalFaultReraised ==
    ( /\ wrapper.pc = "done"
      /\ wrapper.e /= ""
      /\ wrapper.op_calls = 1 )
    => /\ wrapper.outcome = "raised"
       /\ wrapper.source = "raise_e"
       /\ wrapper.exc = wrapper.e

\* C17: an error type without registered strategy resolves to a retry strategy
\* with success probability 0.5 (50 %) whose handler returns a successful
\* retry outcome with delay 5; a handle_error call for such a type gets that
\* outcome from attempt_recovery, and no call ends with a missing-key error.
C17_DefaultStrategy ==
    /\ [](\A k \in ErrorTypes :
            k \notin DOMAIN recovery_strategies =>
                LET r == resolve(recovery_strategies, k)
                IN  /\ r.strategy = "retry"
                    /\ r.success_probability = 50
                    /\ handler_call(r.handler) =
                          [raised |-> FALSE, exc |-> "",
                           result |-> Result(TRUE, "retry", "Retrying operation",
                                             RecoveryAction("retry", [delay |-> 5]))])
    /\ [](last_return.state = "raised" => last_return.exc /= "KeyError")
    /\ [][\A t \in Threads :
            ( /\ pc[t] = "recover"
              /\ pc'[t] /= "recover"
              /\ ectx[t].error_type \notin DOMAIN recovery_strategies
              /\ retry_count(retry_counts, ectx[t].agent_role, ectx[t].task_id,
                             ectx[t].error_type) < max_retries ) =>
                /\ pc'[t] = "update"
                /\ recovery_result'[t].handler_called
                /\ recovery_result'[t].result.success
                /\ recovery_result'[t].result.recovery_action =
                       RecoveryAction("retry", [delay |-> 5])]_vars

\* a call for an error type without registered strategy returned the default
\* retry outcome
C17_Witness ==
    /\ last_return.state = "returned"
    /\ last_return.call.error_type \notin DOMAIN recovery_strategies
    /\ last_return.handler_called
    /\ last_return.result.strategy = "retry"
    /\ last_return.result.recovery_action.parameters.delay = 5

\* the seven fields of the statistics
StatisticsFields ==
    {"total_errors", "recent_errors", "severity_breakdown", "agent_breakdown",
     "error_type_breakdown", "circuit_breakers_open", "active_retry_counts"}

\* C18: in every engine state, the empty history included,
\* get_error_statistics returns all seven fields and create_error_report
\* returns a report with summary, recommendations and circuit_breaker_status,
\* and neither raises.
C18_ReportsComplete ==
    /\ api.op = "get_error_statistics" =>
          /\ ~api.value.raised
          /\ DOMAIN api.value.value = StatisticsFields
    /\ api.op = "create_error_report" =>
          /\ ~api.value.raised
          /\ {"summary", "recommendations", "circuit_breaker_status"}
                 \subseteq DOMAIN api.value.value
          /\ DOMAIN api.value.value.summary = StatisticsFields

\* C19: a handle_error call without agent_role or without task_id fails fast
\* with an InvalidArgument error and changes no engine state: no history
\* record, no retry counter and no breaker entry is made for it.
C19_InvalidArgumentRejected ==
    /\ \A j \in 1..Len(error_history) :
          /\ error_history[j].agent_role /= Missing
          /\ error_history[j].task_id /= Missing
    /\ \A input \in InvalidInputs :
          /\ retry_key(input[1], input[2], input[3]) \notin DOMAIN retry_counts
          /\ breaker_key(input[1], input[3]) \notin DOMAIN circuit_breakers
    /\ (last_return.call.agent_role = Missing \/ last_return.call.task_id = Missing) =>
          /\ last_return.state = "raised"
          /\ last_return.exc = "InvalidArgument"

\* C20: register_recovery_strategy(error_type, strategy, handler) makes
\* (strategy, handler) the registration of error_type, replacing any earlier
\* one, and leaves the registrations of all other error types unchanged;
\* registering the same strategy once more changes nothing, and resolving the
\* error type afterwards gives the strategy registered last.
C20_RegisterReplaces ==
    [][\A k \in RegistryKinds, reg \in WrapperRegistrations :
         RegisterCall(k, reg) =>
            LET entry == [strategy |-> reg[1], handler |-> reg[2],
                          success_probability |-> 80]
            IN  /\ DOMAIN recovery_strategies' = DOMAIN recovery_strategies \cup {k}
                /\ recovery_strategies'[k] = entry
                /\ \A other \in DOMAIN recovery_strategies \ {k} :
                       recovery_strategies'[other] = recovery_strategies[other]
                /\ register_recovery_strategy(recovery_strategies', k, reg[1], reg[2])
                       = recovery_strategies'
                /\ resolve(recovery_strategies', k) = entry]_vars

\* a registration has just replaced a different one while the other error
\* types have registrations of their own
C20_Witness ==
    /\ api.op = "register_recovery_strategy"
    /\ api.value \notin {"none", recovery_strategies[api.error_type].handler}
    /\ DOMAIN recovery_strategies = RegistryKinds
    /\ \E other \in RegistryKinds :
          recovery_strategies[other].handler
             /= recovery_strategies[api.error_type].handler

C22_RaisingHandlerCounts ==
    [][\A t \in Threads :
         LET before == failure_count(circuit_breakers, PairOf(t)[1], PairOf(t)[2])
             after == failure_count(circuit_breakers', PairOf(t)[1], PairOf(t)[2])
         IN  /\ ( /\ pc[t] = "recover"
                  /\ pc'[t] = "update"
                  /\ handler_to_call(recovery_strategies, retry_counts, ectx[t])
                         = "raising_handler" ) =>
                   retry_count(retry_counts', ectx[t].agent_role, ectx[t].task_id,
                               ectx[t].error_type)
                     = retry_count(retry_counts, ectx[t].agent_role, ectx[t].task_id,
                                   ectx[t].error_type) + 1
             /\ ( /\ pc[t] = "update"
                  /\ pc'[t] = "idle"
                  /\ recovery_result[t].handler_called
                  /\ recovery_result[t].result.message = "Recovery failed: handler failed" ) =>
                   after = before + 1]_vars

\* C23: in every state the breaker of every pair is open exactly if its
\* failure_count is at least circuit_breaker_threshold; a pair without entry
\* is closed with failure_count 0.
C23_OpenIffThreshold ==
    /\ \A key \in DOMAIN circuit_breakers :
          circuit_breakers[key].is_open
             <=> circuit_breakers[key].failure_count >= circuit_breaker_threshold
    /\ \A pair \in Pairs :
          /\ is_open(circuit_breakers, pair[1], pair[2])
                <=> failure_count(circuit_breakers, pair[1], pair[2])
                       >= circuit_breaker_threshold
          /\ breaker_key(pair[1], pair[2]) \notin DOMAIN circuit_breakers =>
                /\ ~is_open(circuit_breakers, pair[1], pair[2])
                /\ failure_count(circuit_breakers, pair[1], pair[2]) = 0

\* one breaker is open at the threshold, another is closed one failure below
\* it, after a query
C23_Witness ==
    /\ api.op = "is_circuit_breaker_open"
    /\ \E p, q \in Pairs :
          /\ is_open(circuit_breakers, p[1], p[2])
          /\ failure_count(circuit_breakers, p[1], p[2]) = circuit_breaker_threshold
          /\ ~is_open(circuit_breakers, q[1], q[2])
          /\ failure_count(circuit_breakers, q[1], q[2]) = circuit_breaker_threshold - 1

\* C24: update_circuit_breaker with success = true, applied in any breaker
\* state, leaves failure_count 0, the breaker closed and opened_at None; so in
\* every state opened_at is None exactly if the breaker is closed.
C24_SuccessClearsOpenedAt ==
    /\ \A key \in DOMAIN circuit_breakers :
          circuit_breakers[key].opened_at = None <=> ~circuit_breakers[key].is_open
    /\ (api.op = "update_circuit_breaker" /\ api.success) =>
          /\ failure_count(circuit_breakers, api.agent_role, api.error_type) = 0
          /\ ~is_open(circuit_breakers, api.agent_role, api.error_type)
          /\ opened_at(circuit_breakers, api.agent_role, api.error_type) = None

\* C25: update_circuit_breaker with success = false applied to an open breaker
\* raises failure_count by 1 and leaves opened_at unchanged: opened_at is set
\* only when the breaker goes from closed to open.
C25_OpenedAtSetOnce ==
    [][\A pair \in Pairs :
         ( /\ RecordOutcome(pair, FALSE)
           /\ is_open(circuit_breakers, pair[1], pair[2]) ) =>
            /\ failure_count(circuit_breakers', pair[1], pair[2])
                  = failure_count(circuit_breakers, pair[1], pair[2]) + 1
            /\ is_open(circuit_breakers', pair[1], pair[2])
            /\ opened_at(circuit_breakers', pair[1], pair[2])
                  = opened_at(circuit_breakers, pair[1], pair[2])]_vars

C27_HistoryAppendOnly ==
    /\ [][/\ Len(error_history') >= Len(error_history)
          /\ \A j \in 1..Len(error_history) : error_history'[j] = error_history[j]]_vars
    /\ [](\A j \in 1..Len(error_history) :
            error_history[j].severity =
               determine_error_severity(error_history[j].error_type, ErrorMessage))

\* two records of different severity are in the history and a report was made
C27_Witness ==
    /\ Len(error_history) = MaxSeverityCalls
    /\ error_history[1].severity = "critical"
    /\ error_history[Len(error_history)].severity = "low"
    /\ api.op = "create_error_report"
    /\ ~api.value.raised

\* how many entries of the list recs are the string entry
Occurrences(recs, entry) == Cardinality({j \in 1..Len(recs) : recs[j] = entry})

\* C28: the recommendations contain the stability-review entry iff
\* total_errors > 100, the spike entry iff recent_errors > 10, the
\* manual-intervention entry iff at least one breaker is open, one
\* preventive-measures entry for each error type counted more than 20 times
\* and for no other type, and nothing else; the recommendations of a report
\* are those of its summary.
C28_RecommendationRules ==
    /\ api.op = "generate_error_recommendations" =>
          LET recs == api.value.value
              st == api.stats
              frequent == {k \in DOMAIN st.error_type_breakdown :
                              st.error_type_breakdown[k] > 20}
          IN  /\ ~api.value.raised
              /\ Occurrences(recs, stability_review)
                    = IF st.total_errors > 100 THEN 1 ELSE 0
              /\ Occurrences(recs, recent_spike)
                    = IF st.recent_errors > 10 THEN 1 ELSE 0
              /\ Occurrences(recs, manual_intervention(st.circuit_breakers_open))
                    = IF st.circuit_breakers_open >= 1 THEN 1 ELSE 0
              /\ \A k \in DOMAIN st.error_type_breakdown :
                    Occurrences(recs, preventive_measures(k))
                       = IF k \in frequent THEN 1 ELSE 0
              /\ Len(recs) = (IF st.total_errors > 100 THEN 1 ELSE 0)
                               + (IF st.recent_errors > 10 THEN 1 ELSE 0)
                               + (IF st.circuit_breakers_open >= 1 THEN 1 ELSE 0)
                               + Cardinality(frequent)
    /\ (api.op = "create_error_report" /\ ~api.value.raised) =>
          /\ api.value.value.recommendations =
                generate_error_recommendations(api.value.value.summary).value

\* every rule fired for one error type, the other type being at the threshold
C28_Witness ==
    /\ api.op = "generate_error_recommendations"
    /\ api.stats.total_errors = 101
    /\ api.stats.recent_errors = 11
    /\ api.stats.circuit_breakers_open = 2
    /\ api.stats.error_type_breakdown["ConnectionError"] = 21
    /\ api.stats.error_type_breakdown["ValueError"] = 20
    /\ Len(api.value.value) = 4
    /\ Len(error_history) > 0

\* C29: retry counters and breakers are independent per key, also for
\* identifiers that contain '_': a triple has a retry counter only if a
\* handle_error call was made for that triple, and a pair has a breaker entry
\* only if a call was made for that pair.
C29_KeysIndependent ==
    /\ \A input \in Inputs :
          retry_key(input[1], input[2], input[3]) \in DOMAIN retry_counts =>
             \E j \in 1..Len(error_history) :
                error_history[j] = create_error_context(input[3], input[1], input[2])
    /\ \A pair \in Pairs :
          breaker_key(pair[1], pair[2]) \in DOMAIN circuit_breakers =>
             \E j \in 1..Len(error_history) :
                /\ error_history[j].agent_role = pair[1]
                /\ error_history[j].error_type = pair[2]

\* C30: once the retry counter of a triple equals max_retries, no step
\* changes it and no handle_error call for the triple invokes the handler,
\* whatever is registered later and also after the breaker of the pair has
\* tripped and has been reset by the timeout.
C30_ExhaustedForGood ==
    [][\A input \in SamePairInputs :
         retry_count(retry_counts, input[1], input[2], input[3]) = max_retries =>
            /\ retry_count(retry_counts', input[1], input[2], input[3]) = max_retries
            /\ \A t \in Threads :
                  ( /\ pc[t] = "recover"
                    /\ pc'[t] /= "recover"
                    /\ ectx[t] = create_error_context(input[3], input[1], input[2]) ) =>
                     /\ ~recovery_result'[t].handler_called
                     /\ recovery_result'[t].result.strategy = "max_retries_exceeded"]_vars

\* a call for an exhausted triple was refused after the breaker of its pair
\* had tripped and had been reset by the timeout: the refusal is the first
\* failure of a new breaker entry
C30_Witness ==
    /\ last_return.state = "returned"
    /\ last_return.result.strategy = "max_retries_exceeded"
    /\ retry_count(retry_counts, last_return.call.agent_role, last_return.call.task_id,
                   last_return.call.error_type) = max_retries
    /\ now > circuit_breaker_timeout
    /\ failure_count(circuit_breakers, last_return.call.agent_role,
                     last_return.call.error_type) = 1
    /\ opened_at(circuit_breakers, last_return.call.agent_role,
                 last_return.call.error_type) = None

\* C31: while the breaker of a pair is open and its timeout has not passed,
\* no step of a handle_error call changes its entry (failure_count, opened_at
\* and is_open stay as they are); a step of a handle_error call takes a
\* breaker out of the open state only by the timeout reset of
\* is_circuit_breaker_open, which removes the entry.
C31_OpenUntilTimeout ==
    [][\A pair \in SamePairs :
         ( /\ pc' /= pc
           /\ is_open(circuit_breakers, pair[1], pair[2]) ) =>
            LET key == breaker_key(pair[1], pair[2])
                passed == now - opened_at(circuit_breakers, pair[1], pair[2])
                             > circuit_breaker_timeout
            IN  /\ ~passed =>
                      /\ key \in DOMAIN circuit_breakers'
                      /\ circuit_breakers'[key] = circuit_breakers[key]
                /\ ~is_open(circuit_breakers', pair[1], pair[2]) =>
                      /\ passed
                      /\ key \notin DOMAIN circuit_breakers'
                      /\ \E t \in Threads : pc[t] = "check" /\ pc'[t] = "recover"]_vars

\* a call was short-circuited exactly circuit_breaker_timeout seconds after
\* the breaker tripped, and the breaker is still open
C31_Witness ==
    /\ last_return.state = "returned"
    /\ last_return.result.strategy = "circuit_breaker_open"
    /\ is_open(circuit_breakers, last_return.call.agent_role, last_return.call.error_type)
    /\ now - opened_at(circuit_breakers, last_return.call.agent_role,
                       last_return.call.error_type) = circuit_breaker_timeout

\* C32: handle_error releases the engine lock on every exit, an exit by an
\* exception included: the lock is held only by a thread inside the with
\* block, a thread that leaves handle_error leaves the lock free, and so the
\* lock is free whenever no call is in progress.
C32_LockReleased ==
    /\ [](/\ lock /= "free" => pc[lock] \in {"append", "check", "recover", "update"}
          /\ (\A t \in Threads : pc[t] \in {"idle", "lock"}) => lock = "free")
    /\ [][\A t \in Threads :
            (pc[t] \notin {"idle", "lock"} /\ pc'[t] = "idle") => lock' = "free"]_vars

\* after a call that ended by an exception get_error_statistics took the lock
\* and counted the record of that call
C32_Witness ==
    /\ last_return.state = "raised"
    /\ api.op = "get_error_statistics"
    /\ api.value.value.total_errors = Len(error_history)
    /\ Len(error_history) >= 2
    /\ lock = "free"
    /\ \A t \in Threads : pc[t] = "idle"

\* C33: the circuit_breakers_open count of get_error_statistics is the number
\* of pairs for which is_circuit_breaker_open would return true at that
\* moment; a breaker whose timeout has passed is not counted.
C33_OpenCountCurrent ==
    ( /\ api.op = "get_error_statistics"
      /\ "at" \in DOMAIN api
      /\ "circuit_breakers_open" \in DOMAIN api.value )
    => api.value.circuit_breakers_open =
          Cardinality({pair \in SamePairs :
              LET q == is_circuit_breaker_open(api.breakers, pair[1], pair[2], api.at)
              IN  ~q.raised /\ q.value})

\* C34: a finished create_error_report was not made to fail by a breaker
\* entry added or removed meanwhile, and its summary and its
\* circuit_breaker_status describe one and the same engine state: the open
\* breakers counted in the summary are the open entries of the status.
C34_ReportAtomic ==
    ( /\ api.op = "create_error_report"
      /\ "stage" \in DOMAIN api
      /\ api.stage = "done" )
    => /\ api.value.exc /= "RuntimeError"
       /\ ~api.value.raised =>
             api.value.value.summary.circuit_breakers_open =
                Cardinality({k \in DOMAIN api.value.value.circuit_breaker_status :
                                api.value.value.circuit_breaker_status[k].is_open})

\* C35: a message returned by receive_message has a priority value at least
\* as high as that of every message that was pending for the receiver (a
\* broadcast or addressed to it) when the call took it from the queue: the
\* priority 4 error notification comes before pending priority 2 and 3
\* messages.
C35_HigherPriorityFirst ==
    ( /\ api.op = "receive_message"
      /\ api.value = "message" )
    => \A i \in 1..Len(api.pending) :
          api.pending[i].message.recipient \in {Missing, api.agent_role}
             => api.pending[i].message.priority <= api.message.priority

\* C36: a message returned by receive_message(agent_role) is a broadcast or is
\* addressed to agent_role; a message addressed to another role, the manager
\* included, is not returned to agent_role.
C36_OnlyOwnMessages ==
    ( /\ api.op = "receive_message"
      /\ api.value = "message" )
    => api.message.recipient \in {Missing, api.agent_role}

\* C37: every send_message call returns True and leaves the message on the
\* queue and its dict at the end of message_history, whatever the queue held
\* before, a different message of the same priority included.
C37_SendSucceeds ==
    [][hub_calls'.sends = hub_calls.sends + 1 =>
         /\ api'.value = "True"
         /\ \E i \in 1..Len(message_queue') :
               message_queue'[i] = queue_item(api'.message)
         /\ message_history' /= <<>>
         /\ message_history'[Len(message_history')] = asdict(api'.message)]_vars

\* C38: message_history never holds more than 1000 entries, and its entries
\* are the most recently sent messages in the order they were sent; a send
\* that finds 1000 entries leaves the latest 500, and a send that finds fewer
\* adds one entry.
C38_HistoryBounded ==
    /\ [](/\ Len(message_history) <= 1000
          /\ \A i \in 1..Len(message_history) :
                message_history[i] =
                   asdict(NumberedMessage(hub_calls.sends - Len(message_history) + i)))
    /\ [][hub_calls'.sends = hub_calls.sends + 1 =>
            /\ Len(message_history) = 1000 => Len(message_history') = 500
            /\ Len(message_history) < 1000 =>
                  Len(message_history') = Len(message_history) + 1]_vars

\* C38 witness: the 1001st message has been sent and the history holds the
\* 500 latest messages
C38_Witness ==
    /\ hub_calls.sends = 1001
    /\ api.op = "send_message"
    /\ api.value = "True"
    /\ Len(message_history) = 500
    /\ message_history[1].id = "msg_502"
    /\ message_history[500].id = "msg_1001"

====
